---- MODULE Spec2Model ----
(***************************************************************************)
(* wallet-analyzer: the transaction store (db.py), the price oracle client *)
(* as the analyzer sees it (coingecko.py) and the swap detector/valuator   *)
(* (swap_analysis.py).                                                     *)
(*                                                                         *)
(* Numbers: every amount, price and total is an exact rational <<n, d>>    *)
(* in lowest terms (d > 0); an absent value (Python None, SQL NULL) is the *)
(* empty tuple.  Decimal arithmetic is taken as exact on the small values *)
(* of the model.  A valuation column holds the Decimal that is handed to   *)
(* float() at the write; the rounding of float() is modelled with the REAL *)
(* columns below.                                                          *)
(***************************************************************************)
EXTENDS Integers, Sequences, FiniteSets, TLC

VARIABLES store, result, wallet, faults, calls, fetched, attempted,
          _price_cache, _contract_cache, requests, last, answered

vars ==
    <<store, result, wallet, faults, calls, fetched, attempted,
      _price_cache, _contract_cache, requests, last, answered>>

\* the state of the store and of a run of the analyzer
analysisVars == <<store, result, wallet, faults, calls, fetched, attempted>>

\* the state of one CoinGeckoClient instance
clientVars == <<_price_cache, _contract_cache, requests, last, answered>>

\* ------------------------------------------------------------------ bounds
MaxRows == 3

\* ------------------------------------------------------------- basic values
None == <<>>
NULL == "NULL"

RECURSIVE Gcd(_, _)
Gcd(a, b) == IF b = 0 THEN a ELSE Gcd(b, a % b)

Abs(n) == IF n < 0 THEN 0 - n ELSE n

\* the rational n/d in lowest terms with a positive denominator (d # 0)
Rat(n, d) ==
    LET g == Gcd(Abs(n), Abs(d))
        s == IF d < 0 THEN 0 - 1 ELSE 1
    IN  <<(s * n) \div g, (s * d) \div g>>

Int2Rat(n) == <<n, 1>>
RatAdd(x, y) == Rat(x[1] * y[2] + y[1] * x[2], x[2] * y[2])
RatMul(x, y) == Rat(x[1] * y[1], x[2] * y[2])
RatDiv(x, y) == Rat(x[1] * y[2], x[2] * y[1])
RatPos(x) == x[1] > 0
RatZero == <<0, 1>>

\* str.lower() on the addresses of the model
Lower(s) ==
    CASE s = "0xW" -> "0xw"
      [] s = "0xDEX" -> "0xdex"
      [] s = "0xC" -> "0xc"
      [] OTHER -> s

\* ---------------------------------------------------------------- config
Chains == {"ethereum", "base"}

COINGECKO_PLATFORMS_BY_CHAIN(chain) ==
    CASE chain = "ethereum" -> "ethereum"
      [] chain = "base" -> "base"
      [] chain = "arbitrum" -> "arbitrum-one"
      [] OTHER -> NULL

SYMBOL_TO_COINGECKO_ID(symbol) ==
    CASE symbol = "ETH" -> "ethereum"
      [] symbol = "WETH" -> "weth"
      [] symbol = "USDC" -> "usd-coin"
      [] symbol = "USDT" -> "tether"
      [] symbol = "DAI" -> "dai"
      [] symbol = "WBTC" -> "wrapped-bitcoin"
      [] symbol = "BTC" -> "bitcoin"
      [] OTHER -> NULL

\* ------------------------------------------------------------- timestamps
TS1 == "2024-01-01T00:00:00Z"
TS2 == "2024-01-02T00:00:00Z"
TSBad == "garbage"

\* the instant of datetime.utcnow() at analysis, later than every stored time
NowT == 3

\* _parse_timestamp: the UTC instant of an ISO-8601 string, None when the
\* string is empty, NULL or not parseable
_parse_timestamp(ts) ==
    CASE ts = NULL -> None
      [] ts = "" -> None
      [] ts = TS1 -> <<1>>
      [] ts = TS2 -> <<2>>
      [] OTHER -> None

\* SQLite's ORDER BY block_timestamp: NULL first, then TEXT bytewise
TsRank(ts) ==
    CASE ts = NULL -> 0
      [] ts = "" -> 1
      [] ts = TS1 -> 2
      [] ts = TS2 -> 3
      [] OTHER -> 4

\* ------------------------------------------------------------------ events
\* The transfer events the upstream fetch may hand to upsert_events, each with
\* the chain it is fetched for.  uniqueId NULL is a missing uniqueId.
Ev(chain, hash, uid, ts, from, to, asset, value, contract) ==
    [chain |-> chain, hash |-> hash, uniqueId |-> uid, blockTimestamp |-> ts,
     from |-> from, to |-> to, asset |-> asset, value |-> value,
     address |-> contract]

Feed ==
    { Ev("ethereum", "t1", "a", TS1, "0xW", "0xdex", "ETH", Int2Rat(1), NULL),
      Ev("ethereum", "t1", "b", TS1, "0xpool", "0xw", "TOKEN", Int2Rat(5), "0xt"),
      Ev("ethereum", "t1", "c", TS2, "0xw", "0xdex", "USDC", Int2Rat(2), "0xc"),
      Ev("base", "t1", "d", TS2, "0xw", "0xdex", "USDC", Int2Rat(1), "0xc"),
      Ev("ethereum", "t2", NULL, NULL, "0xw", "0xw", "ETH", Int2Rat(2), NULL),
      Ev("ethereum", "t2", "f", TSBad, "0xw", "0xdex", "JUNK", Int2Rat(1), NULL),
      Ev("ethereum", "t2", "g", TS1, "0xw", "0xdex", "ETH", None, NULL),
      Ev("ethereum", "t1", "a", TS2, "0xw", "0xdex", "ETH", Int2Rat(0), NULL),
      Ev("ethereum", "t1", "x", TS1, "0xpool", "0xdex", "TOKEN", Int2Rat(5), "0xt"),
      Ev("ethereum", "t1", "k", TS2, "0xw", "0xdex", "USDC", Int2Rat(1), NULL),
      Ev("ethereum", "t1", "y", TS2, "0xpool", "0xw", "TOKEN", Int2Rat(7), "0xt") }

Wallets == {"0xW", "0xDEX"}

\* ------------------------------------------------------------------- store
\* _SCHEMA: a row as INSERT leaves it, is_swap 0 and the swap columns NULL
NewRow(id, chain, e) ==
    [id |-> id,
     chain |-> chain,
     tx_hash |-> e.hash,
     unique_id |-> IF e.uniqueId = NULL THEN "" ELSE e.uniqueId,
     block_timestamp |-> e.blockTimestamp,
     from_address |-> e.from,
     to_address |-> e.to,
     asset |-> e.asset,
     value |-> e.value,
     contract_address |-> e.address,
     is_swap |-> 0,
     swap_spent_asset |-> NULL,
     swap_spent_amount |-> None,
     swap_spent_usd |-> None,
     swap_btc_price_at_purchase |-> None,
     swap_btc_amount |-> None,
     swap_btc_price_current |-> None,
     swap_btc_value_usd |-> None]

RowKey(r) == <<r.chain, r.tx_hash, r.unique_id>>

\* an INSERT OR REPLACE: the stored row of the key gives way to the new one
InsertOrReplace(st, chain, e) ==
    IF \E i \in 1..Len(st) : RowKey(st[i]) = RowKey(NewRow(i, chain, e))
    THEN [i \in 1..Len(st) |->
             IF RowKey(st[i]) = RowKey(NewRow(i, chain, e))
             THEN NewRow(i, chain, e) ELSE st[i]]
    ELSE Append(st, NewRow(Len(st) + 1, chain, e))

\* _INSERT: INSERT OR IGNORE under UNIQUE(chain, tx_hash, unique_id).  The id
\* of a row is its rank among the stored rows in rowid order.
InsertOrIgnore(st, chain, e) ==
    LET row == NewRow(Len(st) + 1, chain, e)
    IN  IF \E i \in 1..Len(st) : RowKey(st[i]) = RowKey(row)
        THEN st
        ELSE Append(st, row)

RECURSIVE upsert_events(_, _, _)
upsert_events(st, chain, events) ==
    IF events = <<>> THEN st
    ELSE upsert_events(InsertOrIgnore(st, chain, Head(events)), chain, Tail(events))

\* a count that tells how many rows the INSERT added
AttemptedInserted(st, chain, events) ==
    Len(upsert_events(st, chain, events)) - Len(st)

\* the value upsert_events returns: len(rows), one row for every event
Attempted(st, chain, events) == Len(events)

\* ------------------------------------------------------------ price oracle
\* The upstream's answers in one run are a fixed table less the anomalies of
\* that run (faults): a lookup that raises CoinGeckoError returns None (a
\* price) or NULL (a coin id).  no_price_bitcoin_t1: the upstream has no
\* bitcoin sample around instant 1; zero_price_bitcoin: it quotes bitcoin at 0.
\* unreachable_bitcoin_t1: the request for bitcoin around instant 1 does not
\* get through, session.request raises an exception that is not a
\* CoinGeckoError.  write_fails_t1: a write batch of the group t1 raises
\* sqlite3.Error.
Anomalies ==
    {"no_current_price", "no_contract_ethereum", "no_contract_base",
     "no_price_ethereum", "no_price_usd-coin", "no_price_bitcoin_t1",
     "zero_price_bitcoin", "unreachable_bitcoin_t1", "write_fails_t1"}

\* the outcome of a lookup whose exception is not a CoinGeckoError
Raised == <<0, 0>>

\* the oracles of the model: the table as it is, or with one anomaly
Oracles == {{}} \cup {{a} : a \in Anomalies}

TStr(t) == IF t = 1 THEN "1" ELSE IF t = 2 THEN "2" ELSE "now"

get_current_price(f, coin_id) ==
    IF coin_id = "bitcoin" /\ "no_current_price" \notin f
    THEN Int2Rat(6)
    ELSE None

get_coin_id_by_contract(f, platform_id, contract_address) ==
    CASE platform_id = "ethereum" /\ contract_address = "0xc"
            /\ "no_contract_ethereum" \notin f -> "usd-coin"
      [] platform_id = "base" /\ contract_address = "0xc"
            /\ "no_contract_base" \notin f -> "usd-coin"
      [] OTHER -> NULL

get_price_at_timestamp(f, coin_id, t) ==
    CASE coin_id = "bitcoin" /\ "unreachable_bitcoin_t1" \in f /\ t = 1 -> Raised
      [] coin_id = "ethereum" /\ "no_price_ethereum" \notin f -> Int2Rat(1 + t)
      [] coin_id = "usd-coin" /\ "no_price_usd-coin" \notin f -> Int2Rat(1)
      [] coin_id = "bitcoin" /\ "zero_price_bitcoin" \in f -> Int2Rat(0)
      [] coin_id = "bitcoin" /\ ~("no_price_bitcoin_t1" \in f /\ t = 1)
            -> Int2Rat(3 + t)
      [] OTHER -> None

\* one call on the client: <<operation, tx_hash of the group, argument, argument>>
Call(op, tx, a, b) == <<op, tx, a, b>>

\* ---------------------------------------------------------------- analyzer
\* the SELECT ... ORDER BY block_timestamp of _group_transactions: rows of equal
\* block_timestamp come in id order
LoadOrdered(st) ==
    LET n == Len(st)
        Before(i, j) ==
            \/ TsRank(st[i].block_timestamp) < TsRank(st[j].block_timestamp)
            \/ /\ TsRank(st[i].block_timestamp) = TsRank(st[j].block_timestamp)
               /\ i < j
        Pos(i) == 1 + Cardinality({j \in 1..n : Before(j, i)})
    IN  [k \in 1..n |-> st[CHOOSE i \in 1..n : Pos(i) = k]]

\* the defaultdict loop of _group_transactions: the tx hashes in order of first
\* appearance
RECURSIVE TxOrder(_, _)
TxOrder(loaded, seen) ==
    IF loaded = <<>> THEN <<>>
    ELSE IF Head(loaded).tx_hash \in seen
         THEN TxOrder(Tail(loaded), seen)
         ELSE <<Head(loaded).tx_hash>>
              \o TxOrder(Tail(loaded), seen \cup {Head(loaded).tx_hash})

GroupRows(loaded, tx) == SelectSeq(loaded, LAMBDA r : r.tx_hash = tx)

_group_transactions_unmarked(st) ==
    LoadOrdered(SelectSeq(st, LAMBDA r : r.is_swap = 0))

_group_transactions(st) == LoadOrdered(st)

_is_incoming(w, row) ==
    Lower(IF row.to_address = NULL THEN "" ELSE row.to_address) = w

_is_outgoing(w, row) ==
    Lower(IF row.from_address = NULL THEN "" ELSE row.from_address) = w

RECURSIVE _tx_timestamp(_)
_tx_timestamp(rows) ==
    IF rows = <<>> THEN None
    ELSE IF _parse_timestamp(Head(rows).block_timestamp) # None
         THEN _parse_timestamp(Head(rows).block_timestamp)
         ELSE _tx_timestamp(Tail(rows))

\* _resolve_coin_id: [id, calls]; id NULL when CoinGeckoError is raised
_resolve_coin_id(f, tx, chain, asset, contract_address) ==
    LET symbol == IF asset = NULL THEN "" ELSE asset
        platform == COINGECKO_PLATFORMS_BY_CHAIN(chain)
    IN  IF contract_address # NULL /\ contract_address # ""
        THEN IF platform = NULL
             THEN [id |-> NULL, calls |-> <<>>]
             ELSE [id |-> get_coin_id_by_contract(f, platform, contract_address),
                   calls |-> <<Call("get_coin_id_by_contract", tx, platform,
                                    contract_address)>>]
        ELSE [id |-> SYMBOL_TO_COINGECKO_ID(symbol), calls |-> <<>>]

\* a test that lets a leg of value zero add to its key
CountedNonNull(row) == row.value # None

\* the first loop of _build_spent_components: whether a leg adds to a key
Counted(row) == row.value # None /\ RatPos(row.value)

SpendKeyAssetOnly(row) == <<row.asset, NULL>>

SpendKey(row) == <<row.asset, row.contract_address>>

\* grouped.keys(): the keys in order of first insertion into the dict
RECURSIVE SpendKeys(_, _)
SpendKeys(outgoing, seen) ==
    IF outgoing = <<>> THEN <<>>
    ELSE IF ~Counted(Head(outgoing)) \/ SpendKey(Head(outgoing)) \in seen
         THEN SpendKeys(Tail(outgoing), seen)
         ELSE <<SpendKey(Head(outgoing))>>
              \o SpendKeys(Tail(outgoing), seen \cup {SpendKey(Head(outgoing))})

\* grouped[key]: the sum of the counted legs of the key
RECURSIVE SpendAmount(_, _)
SpendAmount(outgoing, key) ==
    IF outgoing = <<>> THEN RatZero
    ELSE IF Counted(Head(outgoing)) /\ SpendKey(Head(outgoing)) = key
         THEN RatAdd(Head(outgoing).value, SpendAmount(Tail(outgoing), key))
         ELSE SpendAmount(Tail(outgoing), key)

\* chain_by_key[key]: the chain of the last counted leg of the key
SpendChain(outgoing, key) ==
    LET legs == SelectSeq(outgoing, LAMBDA r : Counted(r) /\ SpendKey(r) = key)
    IN  legs[Len(legs)].chain

\* one iteration of the second loop of _build_spent_components, given the
\* resolution res of the key: [ok, components, calls]; ok FALSE when
\* get_price_at_timestamp raised CoinGeckoError or the key did not resolve
SpentComponent(f, tx, key, amount, t, res) ==
    IF res.id = NULL
    THEN [ok |-> FALSE, components |-> <<>>, calls |-> res.calls]
    ELSE IF get_price_at_timestamp(f, res.id, t) = None
    THEN [ok |-> FALSE, components |-> <<>>,
          calls |-> res.calls
              \o <<Call("get_price_at_timestamp", tx, res.id, TStr(t))>>]
    ELSE [ok |-> TRUE,
          components |->
              <<[asset |-> IF key[1] = NULL THEN "" ELSE key[1],
                 amount |-> amount,
                 usd_price |-> get_price_at_timestamp(f, res.id, t)]>>,
          calls |-> res.calls
              \o <<Call("get_price_at_timestamp", tx, res.id, TStr(t))>>]

\* one iteration of the second loop of _build_spent_components: the key
PriceComponent(f, tx, outgoing, key, t) ==
    SpentComponent(f, tx, key, SpendAmount(outgoing, key), t,
        _resolve_coin_id(f, tx, SpendChain(outgoing, key), key[1], key[2]))

\* a second loop that leaves out the components whose lookup raised
RECURSIVE PriceComponentsPartial(_, _, _, _, _, _)
PriceComponentsPartial(f, tx, outgoing, keys, t, k) ==
    IF k > Len(keys) THEN [ok |-> TRUE, components |-> <<>>, calls |-> <<>>]
    ELSE
      LET one == PriceComponent(f, tx, outgoing, keys[k], t)
          rest == PriceComponentsPartial(f, tx, outgoing, keys, t, k + 1)
      IN  [ok |-> TRUE,
           components |-> one.components \o rest.components,
           calls |-> one.calls \o rest.calls]

\* the second loop of _build_spent_components, from key number k on:
\* [ok, components, calls]; ok FALSE when a lookup raised CoinGeckoError
RECURSIVE PriceComponents(_, _, _, _, _, _)
PriceComponents(f, tx, outgoing, keys, t, k) ==
    IF k > Len(keys) THEN [ok |-> TRUE, components |-> <<>>, calls |-> <<>>]
    ELSE
      LET one == PriceComponent(f, tx, outgoing, keys[k], t)
          rest == PriceComponents(f, tx, outgoing, keys, t, k + 1)
      IN  IF ~one.ok THEN one
          ELSE [ok |-> rest.ok,
                components |->
                    IF rest.ok THEN one.components \o rest.components
                    ELSE <<>>,
                calls |-> one.calls \o rest.calls]

_build_spent_components(f, tx, outgoing, t) ==
    PriceComponents(f, tx, outgoing, SpendKeys(outgoing, {}), t, 1)

\* SpentComponent.usd_value summed over the components
RECURSIVE SumUsd(_)
SumUsd(components) ==
    IF components = <<>> THEN RatZero
    ELSE RatAdd(RatMul(Head(components).amount, Head(components).usd_price),
                SumUsd(Tail(components)))

Ids(rows) == {rows[i].id : i \in 1..Len(rows)}

_mark_outgoing_none(st, outgoing) == st

\* a mark that also writes the asset of the leg as the spent asset
_mark_outgoing_valued(st, outgoing) ==
    [i \in 1..Len(st) |->
        IF i \in Ids(outgoing)
        THEN [st[i] EXCEPT !.is_swap = 1, !.swap_spent_asset = st[i].asset]
        ELSE st[i]]

\* _mark_outgoing: UPDATE transactions SET is_swap = 1 WHERE id = ?
_mark_outgoing(st, outgoing) ==
    [i \in 1..Len(st) |->
        IF i \in Ids(outgoing) THEN [st[i] EXCEPT !.is_swap = 1] ELSE st[i]]

\* an UPDATE that writes the current price whether or not the group has a
\* reference amount
_enrich_incoming_unguarded(st, incoming, spent_components, total_usd_spent, btc_price_at_purchase, btc_amount, btc_price_current) ==
    LET spent_asset ==
            IF Len(spent_components) = 1 THEN spent_components[1].asset
            ELSE IF spent_components # <<>> THEN "MULTI" ELSE NULL
        spent_amount ==
            IF Len(spent_components) = 1 THEN spent_components[1].amount
            ELSE None
        btc_price_current_float == btc_price_current
        btc_value_float ==
            IF btc_amount # None THEN RatMul(btc_amount, btc_price_current)
            ELSE None
    IN  [i \in 1..Len(st) |->
            IF i \in Ids(incoming)
            THEN [st[i] EXCEPT !.is_swap = 1,
                               !.swap_spent_asset = spent_asset,
                               !.swap_spent_amount = spent_amount,
                               !.swap_spent_usd = total_usd_spent,
                               !.swap_btc_price_at_purchase = btc_price_at_purchase,
                               !.swap_btc_amount = btc_amount,
                               !.swap_btc_price_current = btc_price_current_float,
                               !.swap_btc_value_usd = btc_value_float]
            ELSE st[i]]

\* an UPDATE that writes the spend total only where it has one to write
_enrich_incoming_keep(st, incoming, spent_components, total_usd_spent, btc_price_at_purchase, btc_amount, btc_price_current) ==
    LET spent_asset ==
            IF Len(spent_components) = 1 THEN spent_components[1].asset
            ELSE IF spent_components # <<>> THEN "MULTI" ELSE NULL
        spent_amount ==
            IF Len(spent_components) = 1 THEN spent_components[1].amount
            ELSE None
        btc_price_current_float ==
            IF btc_amount # None THEN btc_price_current ELSE None
        btc_value_float ==
            IF btc_amount # None THEN RatMul(btc_amount, btc_price_current)
            ELSE None
    IN  [i \in 1..Len(st) |->
            IF i \in Ids(incoming)
            THEN [st[i] EXCEPT !.is_swap = 1,
                               !.swap_spent_asset = spent_asset,
                               !.swap_spent_amount = spent_amount,
                               !.swap_spent_usd =
                                   IF total_usd_spent # None
                                   THEN total_usd_spent
                                   ELSE st[i].swap_spent_usd,
                               !.swap_btc_price_at_purchase = btc_price_at_purchase,
                               !.swap_btc_amount = btc_amount,
                               !.swap_btc_price_current = btc_price_current_float,
                               !.swap_btc_value_usd = btc_value_float]
            ELSE st[i]]

\* _enrich_incoming: the seven values and the UPDATE of the incoming rows
_enrich_incoming(st, incoming, spent_components, total_usd_spent, btc_price_at_purchase, btc_amount, btc_price_current) ==
    LET spent_asset ==
            IF Len(spent_components) = 1 THEN spent_components[1].asset
            ELSE IF spent_components # <<>> THEN "MULTI" ELSE NULL
        spent_amount ==
            IF Len(spent_components) = 1 THEN spent_components[1].amount
            ELSE None
        btc_price_current_float ==
            IF btc_amount # None THEN btc_price_current ELSE None
        btc_value_float ==
            IF btc_amount # None THEN RatMul(btc_amount, btc_price_current)
            ELSE None
    IN  [i \in 1..Len(st) |->
            IF i \in Ids(incoming)
            THEN [st[i] EXCEPT !.is_swap = 1,
                               !.swap_spent_asset = spent_asset,
                               !.swap_spent_amount = spent_amount,
                               !.swap_spent_usd = total_usd_spent,
                               !.swap_btc_price_at_purchase = btc_price_at_purchase,
                               !.swap_btc_amount = btc_amount,
                               !.swap_btc_price_current = btc_price_current_float,
                               !.swap_btc_value_usd = btc_value_float]
            ELSE st[i]]

\* btc_amount of analyze: the division, guarded by a known positive price
BtcAmountTimes(total, btc) ==
    IF btc # None /\ btc # RatZero /\ RatPos(btc) THEN RatMul(total, btc) ELSE None

BtcAmount(total, btc) ==
    IF btc # None /\ btc # RatZero /\ RatPos(btc) THEN RatDiv(total, btc) ELSE None

\* a reference time taken from the last record that parses
ReferenceTimeLast(rows) ==
    IF _tx_timestamp([i \in 1..Len(rows) |-> rows[Len(rows) + 1 - i]]) # None
    THEN _tx_timestamp([i \in 1..Len(rows) |-> rows[Len(rows) + 1 - i]])[1]
    ELSE NowT

\* the reference time of a group: the first timestamp that parses, else now
ReferenceTime(rows) ==
    IF _tx_timestamp(rows) # None THEN _tx_timestamp(rows)[1] ELSE NowT

\* a valuation that gives up the spend when the reference price is missing
ValuedBtcFatal(f, tx, t, built) ==
    IF built.ok /\ built.components # <<>>
       /\ get_price_at_timestamp(f, "bitcoin", t) # None
       /\ get_price_at_timestamp(f, "bitcoin", t) # Raised
    THEN [raised |-> FALSE,
          spent_components |-> built.components,
          total_usd_spent |-> SumUsd(built.components),
          btc_price_at_purchase |-> get_price_at_timestamp(f, "bitcoin", t),
          btc_amount |-> BtcAmount(SumUsd(built.components),
                             get_price_at_timestamp(f, "bitcoin", t)),
          calls |-> built.calls]
    ELSE [raised |-> FALSE,
          spent_components |-> <<>>,
          total_usd_spent |-> None,
          btc_price_at_purchase |-> None,
          btc_amount |-> None,
          calls |-> built.calls]

\* the body of the for loop of analyze from the except of the spend lookup up
\* to the writes, given built, the outcome of _build_spent_components
Valued(f, tx, t, built) ==
    IF built.ok /\ built.components # <<>>
    THEN [raised |-> get_price_at_timestamp(f, "bitcoin", t) = Raised,
          spent_components |-> built.components,
          total_usd_spent |-> SumUsd(built.components),
          btc_price_at_purchase |-> get_price_at_timestamp(f, "bitcoin", t),
          btc_amount |-> BtcAmount(SumUsd(built.components),
                             get_price_at_timestamp(f, "bitcoin", t)),
          calls |-> built.calls
              \o <<Call("get_price_at_timestamp", tx, "bitcoin", TStr(t))>>]
    ELSE [raised |-> FALSE,
          spent_components |-> <<>>,
          total_usd_spent |-> None,
          btc_price_at_purchase |-> None,
          btc_amount |-> None,
          calls |-> built.calls]

\* the valuation of a group at its reference time t
ValuationAt(f, tx, outgoing, t) ==
    Valued(f, tx, t, _build_spent_components(f, tx, outgoing, t))

\* the valuation of one qualifying group (the body of the for loop of analyze
\* up to the writes)
Valuation(f, w, tx, rows) ==
    ValuationAt(f, tx, SelectSeq(rows, LAMBDA r : _is_outgoing(w, r)),
                ReferenceTime(rows))

\* the test of analyze that skips a group: not outgoing or not incoming
SkippedBothEmpty(outgoing, incoming) == outgoing = <<>> /\ incoming = <<>>

Skipped(outgoing, incoming) == outgoing = <<>> \/ incoming = <<>>

\* totals that take the reference amount once for every incoming leg
GroupWritesPerLeg(acc, outgoing, incoming, v, btc_price_current) ==
    [raised |-> FALSE,
     store |-> _enrich_incoming(_mark_outgoing(acc.store, outgoing), incoming,
                   v.spent_components, v.total_usd_spent,
                   v.btc_price_at_purchase, v.btc_amount, btc_price_current),
     swaps_detected |-> acc.swaps_detected + 1,
     total_btc_amount |->
         IF v.btc_amount # None /\ v.btc_amount # RatZero
         THEN RatAdd(acc.total_btc_amount,
                     RatMul(Int2Rat(Len(incoming)), v.btc_amount))
         ELSE acc.total_btc_amount,
     calls |-> acc.calls \o v.calls]

\* the writes of one iteration of the for loop of analyze, and its share of
\* the totals, given the valuation v of the group
GroupWrites(acc, outgoing, incoming, v, btc_price_current) ==
    [raised |-> FALSE,
     store |-> _enrich_incoming(_mark_outgoing(acc.store, outgoing), incoming,
                   v.spent_components, v.total_usd_spent,
                   v.btc_price_at_purchase, v.btc_amount, btc_price_current),
     swaps_detected |-> acc.swaps_detected + 1,
     total_btc_amount |->
         IF v.btc_amount # None /\ v.btc_amount # RatZero
         THEN RatAdd(acc.total_btc_amount, v.btc_amount)
         ELSE acc.total_btc_amount,
     calls |-> acc.calls \o v.calls]

\* whether _mark_outgoing or _enrich_incoming raises sqlite3.Error for tx
WriteFails(f, tx) == tx = "t1" /\ "write_fails_t1" \in f

\* one iteration of the for loop of analyze, given the valuation v of the
\* group: an exception of the bitcoin lookup or of a write leaves the loop
GroupValued(acc, f, tx, outgoing, incoming, v, btc_price_current) ==
    IF v.raised \/ WriteFails(f, tx)
    THEN [acc EXCEPT !.raised = TRUE, !.calls = acc.calls \o v.calls]
    ELSE GroupWrites(acc, outgoing, incoming, v, btc_price_current)

\* one iteration of the for loop of analyze, given the rows of the group
GroupOf(acc, f, w, tx, rows, btc_price_current) ==
    IF acc.raised
       \/ Skipped(SelectSeq(rows, LAMBDA r : _is_outgoing(w, r)),
                  SelectSeq(rows, LAMBDA r : _is_incoming(w, r)))
    THEN acc
    ELSE GroupValued(acc, f, tx, SelectSeq(rows, LAMBDA r : _is_outgoing(w, r)),
                     SelectSeq(rows, LAMBDA r : _is_incoming(w, r)),
                     Valuation(f, w, tx, rows), btc_price_current)

\* one iteration of the for loop of analyze: the group of tx
GroupStep(acc, f, w, loaded, tx, btc_price_current) ==
    GroupOf(acc, f, w, tx, GroupRows(loaded, tx), btc_price_current)

\* a loop that stops at the first group whose spend could not be priced
RECURSIVE AnalyzeGroupsAbort(_, _, _, _, _, _, _)
AnalyzeGroupsAbort(acc, f, w, loaded, txs, k, btc_price_current) ==
    IF k > Len(txs) THEN acc
    ELSE
      IF GroupStep(acc, f, w, loaded, txs[k], btc_price_current).swaps_detected
             # acc.swaps_detected
         /\ Valuation(f, w, txs[k], GroupRows(loaded, txs[k])).spent_components = <<>>
      THEN GroupStep(acc, f, w, loaded, txs[k], btc_price_current)
      ELSE AnalyzeGroupsAbort(
               GroupStep(acc, f, w, loaded, txs[k], btc_price_current),
               f, w, loaded, txs, k + 1, btc_price_current)

\* the for loop of analyze over grouped.items(), from group number k on
RECURSIVE AnalyzeGroups(_, _, _, _, _, _, _)
AnalyzeGroups(acc, f, w, loaded, txs, k, btc_price_current) ==
    IF k > Len(txs) THEN acc
    ELSE AnalyzeGroups(GroupStep(acc, f, w, loaded, txs[k], btc_price_current),
                       f, w, loaded, txs, k + 1, btc_price_current)

Summary(n, amount, value, price) ==
    [swaps_detected |-> n, btc_amount |-> amount, btc_value_usd |-> value,
     btc_price_current |-> price]

\* an end of analyze() on a connection that commits every statement
ReturnedPartial(st, done, btc_price_current) ==
    IF done.raised
    THEN [status |-> "error",
          summary |-> Summary(0, RatZero, RatZero, RatZero),
          store |-> done.store, calls |-> done.calls]
    ELSE [status |-> "ok",
          summary |-> Summary(done.swaps_detected, done.total_btc_amount,
                         RatMul(done.total_btc_amount, btc_price_current),
                         btc_price_current),
          store |-> done.store, calls |-> done.calls]

\* the end of analyze(), given done, the state after the for loop: the
\* summary is returned and the connection commits, or the exception leaves
\* the with block and the connection rolls back to st
Returned(st, done, btc_price_current) ==
    IF done.raised
    THEN [status |-> "error",
          summary |-> Summary(0, RatZero, RatZero, RatZero),
          store |-> st, calls |-> done.calls]
    ELSE [status |-> "ok",
          summary |-> Summary(done.swaps_detected, done.total_btc_amount,
                         RatMul(done.total_btc_amount, btc_price_current),
                         btc_price_current),
          store |-> done.store, calls |-> done.calls]

\* an analyze() that asks for the current price before it looks at the rows
AnalyzeLoadedEager(st, loaded, w, f) ==
    IF get_current_price(f, "bitcoin") = None
    THEN [status |-> "error",
          summary |-> Summary(0, RatZero, RatZero, RatZero),
          store |-> st,
          calls |-> <<Call("get_current_price", "", "bitcoin", "")>>]
    ELSE IF loaded = <<>>
    THEN [status |-> "ok",
          summary |-> Summary(0, RatZero, RatZero, RatZero),
          store |-> st,
          calls |-> <<Call("get_current_price", "", "bitcoin", "")>>]
    ELSE Returned(st,
             AnalyzeGroups(
                 [raised |-> FALSE, store |-> st, swaps_detected |-> 0,
                  total_btc_amount |-> RatZero,
                  calls |-> <<Call("get_current_price", "", "bitcoin", "")>>],
                 f, w, loaded, TxOrder(loaded, {}), 1,
                 get_current_price(f, "bitcoin")),
             get_current_price(f, "bitcoin"))

\* analyze() on the rows as loaded: [status, summary, store, calls].  The
\* connection is a context manager: an exception leaves the store as it was.
AnalyzeLoaded(st, loaded, w, f) ==
    IF loaded = <<>>
    THEN [status |-> "ok",
          summary |-> Summary(0, RatZero, RatZero, RatZero),
          store |-> st, calls |-> <<>>]
    ELSE IF get_current_price(f, "bitcoin") = None
    THEN [status |-> "error",
          summary |-> Summary(0, RatZero, RatZero, RatZero),
          store |-> st,
          calls |-> <<Call("get_current_price", "", "bitcoin", "")>>]
    ELSE Returned(st,
             AnalyzeGroups(
                 [raised |-> FALSE, store |-> st, swaps_detected |-> 0,
                  total_btc_amount |-> RatZero,
                  calls |-> <<Call("get_current_price", "", "bitcoin", "")>>],
                 f, w, loaded, TxOrder(loaded, {}), 1,
                 get_current_price(f, "bitcoin")),
             get_current_price(f, "bitcoin"))

analyze(st, w, f) == AnalyzeLoaded(st, _group_transactions(st), w, f)

\* ------------------------------------------------------------- the machine
NoSummary == Summary(0, RatZero, RatZero, RatZero)

\* an empty dict
NoEntries == [k \in {} |-> None]

\* the last call on the client: the operation, its cache key and what it
\* returned (None or NULL when it raised)
NoCall == [op |-> "none", key |-> None, value |-> None]

\* what the client has returned so far, per operation and key
NothingAnswered ==
    [get_price_at_timestamp |-> NoEntries,
     get_coin_id_by_contract |-> NoEntries,
     get_current_price |-> NoEntries]

Init ==
    /\ store = <<>>
    /\ result = [status |-> "none", summary |-> NoSummary]
    /\ wallet = ""
    /\ faults = {}
    /\ calls = <<>>
    /\ fetched = 0
    /\ attempted = 0
    /\ _price_cache = NoEntries
    /\ _contract_cache = NoEntries
    /\ requests = 0
    /\ last = NoCall
    /\ answered = NothingAnswered

Idle == result.status = "none"

\* the event lists fetch_all_for_chain may return for one chain: one event,
\* or two events of one transfer (the same hash and uniqueId)
Batches ==
    {<<e>> : e \in Feed}
        \cup {<<p[1], p[2]>> : p \in {q \in Feed \X Feed :
                                         /\ q[1].chain = q[2].chain
                                         /\ q[1].hash = q[2].hash
                                         /\ q[1].uniqueId = q[2].uniqueId}}

\* main of fetch_and_store: n = upsert_events(chain, events), with
\* len(events) and n kept for the print
UpsertEvents ==
    \E events \in Batches :
        /\ Idle
        /\ fetched = 0
        /\ Len(upsert_events(store, events[1].chain, events)) <= MaxRows
        /\ store' = upsert_events(store, events[1].chain, events)
        /\ fetched' = Len(events)
        /\ attempted' = Attempted(store, events[1].chain, events)
        /\ UNCHANGED <<result, wallet, faults, calls>>
        /\ UNCHANGED clientVars

\* main of fetch_and_store after upsert_events: the count is printed and the
\* process ends
FetchDone ==
    /\ fetched # 0
    /\ fetched' = 0
    /\ attempted' = 0
    /\ UNCHANGED <<store, result, wallet, faults, calls>>
    /\ UNCHANGED clientVars

\* main of swap_analysis up to the return of
\* SwapAnalyzer(wallet_address, cg_client).analyze()
Analyze ==
    /\ Idle
    /\ fetched = 0
    /\ UNCHANGED <<fetched, attempted>>
    /\ UNCHANGED clientVars
    /\ \E w \in Wallets, f \in Oracles :
           \E run \in {analyze(store, Lower(w), f)} :
               /\ store' = run.store
               /\ result' = [status |-> run.status, summary |-> run.summary]
               /\ wallet' = Lower(w)
               /\ faults' = f
               /\ calls' = run.calls

\* main of swap_analysis after analyze(): the summary is printed (or the
\* exception ends the process) and the run is over
Report ==
    /\ ~Idle
    /\ result' = [status |-> "none", summary |-> NoSummary]
    /\ wallet' = ""
    /\ faults' = {}
    /\ calls' = <<>>
    /\ UNCHANGED <<store, fetched, attempted>>
    /\ UNCHANGED clientVars

Next == UpsertEvents \/ FetchDone \/ Analyze \/ Report

Spec == Init /\ [][Next]_vars

\* -------------------------------------------------------------- the client
\* One CoinGeckoClient instance against an upstream that answers each request
\* as it likes: an error status, a payload without the datum, or a payload
\* with it.  requests counts the calls of session.request of the instance.
MaxRequests == 3

ClientCoinIds == {"bitcoin", "ethereum"}

\* the datetimes of the calls: <<seconds, microseconds>> since the epoch
Datetimes == {<<1, 0>>, <<1, 500000>>, <<2, 0>>}

\* int(timestamp.timestamp())
UnixTs(timestamp) == timestamp[1]

ClientContracts == {"0xc", "0xC"}

\* answers to /coins/{id}/market_chart/range: the status and the "prices"
\* list of <<milliseconds, price>> samples
RangeAnswers ==
    {[status_code |-> 500, prices |-> <<>>],
     [status_code |-> 200, prices |-> <<>>],
     [status_code |-> 200, prices |-> <<(<<1999, 1>>)>>],
     [status_code |-> 200, prices |-> << <<2000, 2>>, <<1000, 1>> >>],
     [status_code |-> 200, prices |-> << <<0, 2>>, <<2999, 1>> >>]}

\* answers to /coins/{platform}/contract/{address}: the status and the "id"
ContractAnswers ==
    {[status_code |-> 500, id |-> ""],
     [status_code |-> 200, id |-> ""],
     [status_code |-> 200, id |-> "usd-coin"],
     [status_code |-> 200, id |-> "tether"]}

\* answers to /simple/price: the status and the "usd" entry of the coin
\* (None: the entry is missing)
SimpleAnswers ==
    {[status_code |-> 500, usd |-> None],
     [status_code |-> 200, usd |-> None],
     [status_code |-> 200, usd |-> Int2Rat(1)],
     [status_code |-> 200, usd |-> Int2Rat(2)]}

\* min(prices, key=lambda pair: abs(int(pair[0] / 1000) - unix_ts))[1]: the
\* first sample at the least distance
ClosestPrice(prices, unix_ts) ==
    prices[CHOOSE i \in DOMAIN prices :
               \A j \in DOMAIN prices :
                   \/ Abs((prices[i][1] \div 1000) - unix_ts)
                          < Abs((prices[j][1] \div 1000) - unix_ts)
                   \/ /\ Abs((prices[i][1] \div 1000) - unix_ts)
                            = Abs((prices[j][1] \div 1000) - unix_ts)
                      /\ i <= j][2]

\* d[key] = value on a dict
Put(d, key, value) == [k \in DOMAIN d \cup {key} |-> IF k = key THEN value ELSE d[k]]

\* the call op(key) returns value
Returns(op, key, value) ==
    /\ last' = [op |-> op, key |-> key, value |-> value]
    /\ answered' = [answered EXCEPT ![op] = Put(answered[op], key, value)]

\* the call op(key) raises
Raises(op, key, none) ==
    /\ last' = [op |-> op, key |-> key, value |-> none]
    /\ UNCHANGED answered

\* _request: one more call of session.request
Request ==
    /\ requests < MaxRequests
    /\ requests' = requests + 1

GetCoinIdByContract ==
    \E platform_id \in {"ethereum"}, contract_address \in ClientContracts :
        \E key \in {<<platform_id, Lower(contract_address)>>} :
            /\ UNCHANGED analysisVars
            /\ UNCHANGED _price_cache
            /\ IF key \in DOMAIN _contract_cache
               THEN /\ Returns("get_coin_id_by_contract", key, _contract_cache[key])
                    /\ UNCHANGED <<_contract_cache, requests>>
               ELSE /\ Request
                    /\ \E data \in ContractAnswers :
                           IF data.status_code >= 400 \/ data.id = ""
                           THEN /\ Raises("get_coin_id_by_contract", key, NULL)
                                /\ UNCHANGED _contract_cache
                           ELSE /\ _contract_cache' = Put(_contract_cache, key, data.id)
                                /\ Returns("get_coin_id_by_contract", key, data.id)

GetPriceAtTimestamp ==
    \E coin_id \in ClientCoinIds, timestamp \in Datetimes :
        \E cache_key \in {<<coin_id, UnixTs(timestamp)>>} :
            /\ UNCHANGED analysisVars
            /\ UNCHANGED _contract_cache
            /\ IF cache_key \in DOMAIN _price_cache
               THEN /\ Returns("get_price_at_timestamp", cache_key, _price_cache[cache_key])
                    /\ UNCHANGED <<_price_cache, requests>>
               ELSE /\ Request
                    /\ \E data \in RangeAnswers :
                           IF data.status_code >= 400 \/ data.prices = <<>>
                           THEN /\ Raises("get_price_at_timestamp", cache_key, None)
                                /\ UNCHANGED _price_cache
                           ELSE \E price \in {Int2Rat(ClosestPrice(data.prices, cache_key[2]))} :
                                    /\ _price_cache' = Put(_price_cache, cache_key, price)
                                    /\ Returns("get_price_at_timestamp", cache_key, price)

GetCurrentPrice ==
    \E coin_id \in ClientCoinIds :
        /\ UNCHANGED analysisVars
        /\ UNCHANGED <<_price_cache, _contract_cache>>
        /\ Request
        /\ \E data \in SimpleAnswers :
               IF data.status_code >= 400 \/ data.usd = None
               THEN Raises("get_current_price", coin_id, None)
               ELSE Returns("get_current_price", coin_id, data.usd)

\* CoinGeckoClient(api_key): a new instance, its caches empty
NewClient ==
    /\ requests # 0
    /\ _price_cache' = NoEntries
    /\ _contract_cache' = NoEntries
    /\ requests' = 0
    /\ last' = NoCall
    /\ answered' = NothingAnswered
    /\ UNCHANGED analysisVars

ClientNext == GetCoinIdByContract \/ GetPriceAtTimestamp \/ GetCurrentPrice \/ NewClient

ClientSpec == Init /\ [][ClientNext]_vars

\* ------------------------------------------------------ the REAL columns
\* The valuation columns of the model hold the Decimal that _enrich_incoming
\* hands to float(); the REAL that SQLite stores is float() of it.  The
\* analyzer never reads these columns back.  float() is modelled as the
\* rounding to the nearest binary floating-point number, ties to even, of
\* MantissaBits significant bits (a double has 53).
MantissaBits == 5

RECURSIVE Pow2(_)
Pow2(k) == IF k = 0 THEN 1 ELSE 2 * Pow2(k - 1)

RatLess(x, y) == x[1] * y[2] < y[1] * x[2]

\* x * 2^k
Scaled(x, k) ==
    IF k >= 0 THEN RatMul(x, Int2Rat(Pow2(k))) ELSE RatMul(x, Rat(1, Pow2(0 - k)))

\* the k with 2^(MantissaBits - 1) <= x * 2^k < 2^MantissaBits, for x > 0
RECURSIVE Exponent(_, _)
Exponent(x, k) ==
    IF RatLess(Scaled(x, k), Int2Rat(Pow2(MantissaBits - 1)))
    THEN Exponent(x, k + 1)
    ELSE IF ~RatLess(Scaled(x, k), Int2Rat(Pow2(MantissaBits)))
    THEN Exponent(x, k - 1)
    ELSE k

\* the integer nearest to x >= 0, the even one of two at equal distance
RoundHalfEven(x) ==
    IF 2 * (x[1] % x[2]) < x[2] THEN x[1] \div x[2]
    ELSE IF 2 * (x[1] % x[2]) > x[2] THEN (x[1] \div x[2]) + 1
    ELSE IF (x[1] \div x[2]) % 2 = 0 THEN x[1] \div x[2]
    ELSE (x[1] \div x[2]) + 1

\* x rounded at the exponent k
RoundedAt(x, k) == Scaled(Int2Rat(RoundHalfEven(Scaled(x, k))), 0 - k)

\* float(x) of a Decimal x >= 0
float(x) == IF x[1] = 0 THEN RatZero ELSE RoundedAt(x, Exponent(x, 0))

\* ------------------------------------------------------- reading a state
\* The groups of a store relative to a wallet, as sets of row ids.
LegsOf(st, tx) == {i \in DOMAIN st : st[i].tx_hash = tx}
OutOf(st, w, tx) == {i \in LegsOf(st, tx) : Lower(st[i].from_address) = w}
InOf(st, w, tx) == {i \in LegsOf(st, tx) : Lower(st[i].to_address) = w}
QualifiesIn(st, w, tx) == OutOf(st, w, tx) # {} /\ InOf(st, w, tx) # {}

TxHashes == {store[i].tx_hash : i \in DOMAIN store}
Legs(tx) == LegsOf(store, tx)
OutLegs(tx) == OutOf(store, wallet, tx)
InLegs(tx) == InOf(store, wallet, tx)
Qualifies(tx) == QualifiesIn(store, wallet, tx)

\* analyze() has returned its summary for `wallet` under the oracle `faults`
Done == result.status = "ok"

\* the seven enrichment columns of a row
Enrichment(r) ==
    <<r.swap_spent_asset, r.swap_spent_amount, r.swap_spent_usd,
      r.swap_btc_price_at_purchase, r.swap_btc_amount,
      r.swap_btc_price_current, r.swap_btc_value_usd>>

NoEnrichment == <<NULL, None, None, None, None, None, None>>

\* What the oracle answers of the run say a group is worth, read from the
\* stored rows: the reference time, the spend keys, their amounts and prices.
Parseable(tx) ==
    {i \in Legs(tx) : _parse_timestamp(store[i].block_timestamp) # None}

RefTime(tx) ==
    IF Parseable(tx) = {} THEN NowT
    ELSE LET first == CHOOSE i \in Parseable(tx) : \A j \in Parseable(tx) :
                          TsRank(store[i].block_timestamp)
                              <= TsRank(store[j].block_timestamp)
         IN  _parse_timestamp(store[first].block_timestamp)[1]

CountedOut(tx) ==
    {i \in OutLegs(tx) : store[i].value # None /\ store[i].value[1] > 0}

Keys(tx) == {<<store[i].asset, store[i].contract_address>> : i \in CountedOut(tx)}

KeyLegs(tx, key) ==
    {i \in CountedOut(tx) : <<store[i].asset, store[i].contract_address>> = key}

RECURSIVE SumValues(_)
SumValues(ids) ==
    IF ids = {} THEN RatZero
    ELSE LET i == CHOOSE j \in ids : TRUE
         IN  RatAdd(store[i].value, SumValues(ids \ {i}))

KeyAmount(tx, key) == SumValues(KeyLegs(tx, key))

\* the leg of the key that is loaded last: the latest block_timestamp, and
\* among equal ones the highest id
LastLeg(tx, key) ==
    CHOOSE i \in KeyLegs(tx, key) : \A j \in KeyLegs(tx, key) :
        \/ TsRank(store[j].block_timestamp) < TsRank(store[i].block_timestamp)
        \/ /\ TsRank(store[j].block_timestamp) = TsRank(store[i].block_timestamp)
           /\ j <= i

KeyCoin(tx, key) ==
    IF key[2] # NULL
    THEN get_coin_id_by_contract(faults,
             COINGECKO_PLATFORMS_BY_CHAIN(store[LastLeg(tx, key)].chain), key[2])
    ELSE SYMBOL_TO_COINGECKO_ID(key[1])

KeyPrice(tx, key) ==
    IF KeyCoin(tx, key) = NULL THEN None
    ELSE get_price_at_timestamp(faults, KeyCoin(tx, key), RefTime(tx))

\* asset-id resolution or price lookup fails for a spent component
ComponentFails(tx) == \E key \in Keys(tx) : KeyPrice(tx, key) = None

\* every spent component of the group is priced, and there is one
Priced(tx) == Keys(tx) # {} /\ ~ComponentFails(tx)

RECURSIVE SumKeyUsd(_, _)
SumKeyUsd(tx, keys) ==
    IF keys = {} THEN RatZero
    ELSE LET key == CHOOSE x \in keys : TRUE
         IN  RatAdd(RatMul(KeyAmount(tx, key), KeyPrice(tx, key)),
                    SumKeyUsd(tx, keys \ {key}))

ExpectedUsd(tx) == SumKeyUsd(tx, Keys(tx))

ExpectedSpentAsset(tx) ==
    IF Cardinality(Keys(tx)) = 1
    THEN (CHOOSE key \in Keys(tx) : TRUE)[1]
    ELSE "MULTI"

ExpectedSpentAmount(tx) ==
    IF Cardinality(Keys(tx)) = 1
    THEN KeyAmount(tx, CHOOSE key \in Keys(tx) : TRUE)
    ELSE None

\* the reference asset's historical price for the group
BtcAt(tx) == get_price_at_timestamp(faults, "bitcoin", RefTime(tx))

BtcOk(tx) == BtcAt(tx) # None /\ BtcAt(tx)[1] > 0

\* the group's reference-asset amount, absent counted as zero
ExpectedBtc(tx) ==
    IF Qualifies(tx) /\ Priced(tx) /\ BtcOk(tx)
    THEN RatDiv(ExpectedUsd(tx), BtcAt(tx))
    ELSE RatZero

RECURSIVE SumBtc(_)
SumBtc(txs) ==
    IF txs = {} THEN RatZero
    ELSE LET tx == CHOOSE x \in txs : TRUE
         IN  RatAdd(ExpectedBtc(tx), SumBtc(txs \ {tx}))

CurrentPrice == get_current_price(faults, "bitcoin")

\* the seven columns of a fully valued group
FullValuation(tx) ==
    <<ExpectedSpentAsset(tx), ExpectedSpentAmount(tx), ExpectedUsd(tx),
      BtcAt(tx), ExpectedBtc(tx), CurrentPrice,
      RatMul(ExpectedBtc(tx), CurrentPrice)>>

\* the columns when only the reference asset's historical lookup failed
SpendOnlyValuation(tx) ==
    <<ExpectedSpentAsset(tx), ExpectedSpentAmount(tx), ExpectedUsd(tx),
      None, None, None, None>>

BtcCalls(tx) ==
    {k \in DOMAIN calls : /\ calls[k][1] = "get_price_at_timestamp"
                          /\ calls[k][2] = tx
                          /\ calls[k][3] = "bitcoin"}

QualifyingTxs == {tx \in TxHashes : Qualifies(tx)}

\* ------------------------------------------------------------------ claims

\* C1 as stated: after analyze() returns, every record stored under the
\* tx hash of a qualifying group has is_swap = 1, whatever its addresses.
C1_EveryRecordMarked ==
    Done => \A tx \in TxHashes :
        Qualifies(tx) => \A i \in Legs(tx) : store[i].is_swap = 1

\* C1 (amended): after analyze() returns for wallet W, every outgoing and
\* every incoming leg (relative to W) of a qualifying group has is_swap = 1.
C1_WalletLegsMarked ==
    Done => \A tx \in TxHashes :
        Qualifies(tx) => \A i \in OutLegs(tx) \cup InLegs(tx) : store[i].is_swap = 1

\* a qualifying group with an outgoing leg, a separate incoming leg and a
\* record between two other addresses
C1_Witness ==
    /\ Done
    /\ \E tx \in TxHashes :
        /\ Qualifies(tx)
        /\ OutLegs(tx) \ InLegs(tx) # {}
        /\ InLegs(tx) \ OutLegs(tx) # {}
        /\ Legs(tx) # OutLegs(tx) \cup InLegs(tx)
        /\ \A i \in OutLegs(tx) \cup InLegs(tx) : store[i].is_swap = 1

\* C2: a run of analyze() changes no field of any record of a group whose
\* outgoing or incoming partition is empty, and makes no oracle call for it.
C2_SkippedGroupUntouched ==
    [][ (Idle /\ ~Idle') =>
          \A i \in DOMAIN store :
              ~QualifiesIn(store, wallet', store[i].tx_hash) =>
                  /\ store'[i] = store[i]
                  /\ \A k \in DOMAIN calls' : calls'[k][2] # store[i].tx_hash ]_vars

\* a run has skipped a group that carries the enrichment of an earlier run
C2_Witness ==
    /\ Done
    /\ \E i \in DOMAIN store :
        /\ ~Qualifies(store[i].tx_hash)
        /\ store[i].is_swap = 1
        /\ store[i].swap_spent_usd # None

\* C3 as stated: a qualifying group for which an oracle lookup fails (an
\* asset-id resolution or a historical price lookup, the reference asset's
\* included) has its legs marked and all valuation columns of its incoming
\* legs absent, and every qualifying group whose lookups succeed is fully
\* valued.
C3_FailingGroupAllAbsent ==
    Done => \A tx \in QualifyingTxs :
        /\ \A i \in OutLegs(tx) \cup InLegs(tx) : store[i].is_swap = 1
        /\ (Priced(tx) /\ BtcOk(tx)) =>
               \A i \in InLegs(tx) : Enrichment(store[i]) = FullValuation(tx)
        /\ (ComponentFails(tx) \/ (Priced(tx) /\ BtcAt(tx) = None)) =>
               \A i \in InLegs(tx) : Enrichment(store[i]) = NoEnrichment

\* C3 (amended): in one run every qualifying group whose own lookups succeed
\* is fully valued whatever happens to the other groups and wherever they
\* come in the processing order; a group with a failing lookup has its legs
\* marked, its incoming legs carry no valuation at all when the failure is in
\* a spent component, and carry the spend columns without the reference
\* columns when only the reference asset's historical lookup fails.
C3_Isolation ==
    Done => \A tx \in QualifyingTxs :
        /\ \A i \in OutLegs(tx) \cup InLegs(tx) : store[i].is_swap = 1
        /\ (Priced(tx) /\ BtcOk(tx)) =>
               \A i \in InLegs(tx) : Enrichment(store[i]) = FullValuation(tx)
        /\ ComponentFails(tx) =>
               \A i \in InLegs(tx) : Enrichment(store[i]) = NoEnrichment
        /\ (Priced(tx) /\ BtcAt(tx) = None) =>
               \A i \in InLegs(tx) : Enrichment(store[i]) = SpendOnlyValuation(tx)

\* a group whose spend cannot be priced is processed before a sibling whose
\* lookups all succeed, and the sibling is fully valued
C3_Witness ==
    /\ Done
    /\ \E g \in QualifyingTxs, s \in QualifyingTxs :
        /\ g # s
        /\ ComponentFails(g)
        /\ Priced(s) /\ BtcOk(s)
        /\ TxOrder(_group_transactions(store), {})[1] = g
        /\ \A i \in InLegs(g) : Enrichment(store[i]) = NoEnrichment
        /\ \A i \in InLegs(s) : store[i].swap_btc_amount # None

\* C4: when resolution or pricing fails for a spent component, the group has
\* no spend total (not the sum of the components that did resolve), no
\* reference-asset historical lookup is made for it, its outgoing legs are
\* flagged and it counts as a detected swap.
C4_AllOrNothing ==
    Done => \A tx \in QualifyingTxs :
        ComponentFails(tx) =>
            /\ \A i \in InLegs(tx) : /\ store[i].swap_spent_usd = None
                                     /\ store[i].swap_spent_asset = NULL
                                     /\ store[i].swap_spent_amount = None
            /\ BtcCalls(tx) = {}
            /\ \A i \in OutLegs(tx) : store[i].is_swap = 1
            /\ result.summary.swaps_detected = Cardinality(QualifyingTxs)

\* one spent component of a group is priced and another is not
C4_Witness ==
    /\ Done
    /\ \E tx \in QualifyingTxs :
        /\ \E key \in Keys(tx) : KeyPrice(tx, key) = None
        /\ \E key \in Keys(tx) : KeyPrice(tx, key) # None
        /\ \A i \in InLegs(tx) : store[i].swap_spent_usd = None
        /\ InLegs(tx) \ OutLegs(tx) # {}

\* C5: when the spent components are all priced and the reference asset's
\* historical lookup fails, the incoming legs carry spentAsset, spentAmount
\* and spentUsd as computed and no reference price or amount; the group is
\* counted and adds nothing to the run's reference-asset total.
C5_RefLookupFails ==
    Done => \A tx \in QualifyingTxs :
        (Priced(tx) /\ BtcAt(tx) = None) =>
            /\ \A i \in InLegs(tx) :
                /\ store[i].swap_spent_asset = ExpectedSpentAsset(tx)
                /\ store[i].swap_spent_amount = ExpectedSpentAmount(tx)
                /\ store[i].swap_spent_usd = ExpectedUsd(tx)
                /\ store[i].swap_btc_price_at_purchase = None
                /\ store[i].swap_btc_amount = None
            /\ result.summary.swaps_detected = Cardinality(QualifyingTxs)
            /\ result.summary.btc_amount = SumBtc(QualifyingTxs \ {tx})

\* the reference lookup fails for one priced group while another group adds
\* to the total
C5_Witness ==
    /\ Done
    /\ \E tx \in QualifyingTxs :
        /\ Priced(tx) /\ BtcAt(tx) = None
        /\ \A i \in InLegs(tx) : store[i].swap_spent_usd # None
        /\ result.summary.btc_amount # RatZero

\* C6: a second run of analyze() for the same wallet on the records as the
\* first run left them, with the same oracle answers, leaves is_swap and the
\* enrichment columns of every record as they are and returns the summary the
\* first run returned.
C6_Idempotent ==
    Done => \E again \in {analyze(store, wallet, faults)} :
        /\ again.status = "ok"
        /\ Len(again.store) = Len(store)
        /\ \A i \in DOMAIN store :
            /\ again.store[i].is_swap = store[i].is_swap
            /\ Enrichment(again.store[i]) = Enrichment(store[i])
        /\ again.summary = result.summary

\* the first run has valued a group and added to the total, and the second
\* run reproduces it
C6_Witness ==
    /\ Done
    /\ result.summary.btc_amount # RatZero
    /\ \E i \in DOMAIN store : store[i].swap_btc_amount # None
    /\ analyze(store, wallet, faults).store = store

\* the stored records as an event again, and the store that holds the same
\* records inserted in the order p
EventOf(r) ==
    Ev(r.chain, r.tx_hash, r.unique_id, r.block_timestamp, r.from_address,
       r.to_address, r.asset, r.value, r.contract_address)

RECURSIVE StoredInOrder(_, _)
StoredInOrder(p, k) ==
    IF k = 0 THEN <<>>
    ELSE upsert_events(StoredInOrder(p, k - 1), store[p[k]].chain,
                       <<EventOf(store[p[k]])>>)

Orders ==
    {p \in [DOMAIN store -> DOMAIN store] :
        \A a, b \in DOMAIN store : a # b => p[a] # p[b]}

\* C7 as stated: whatever the order in which the same records are stored and
\* so loaded, analyze() gives every group the same spentUsd, also when the
\* legs of the group differ in block_timestamp or in chain.
C7_OrderIndependent ==
    Done => \A p \in Orders :
        \E other \in {analyze(StoredInOrder(p, Len(store)), wallet, faults)} :
            \A tx \in QualifyingTxs : \A i \in InLegs(tx) :
                \A j \in DOMAIN other.store :
                    RowKey(other.store[j]) = RowKey(store[i]) =>
                        other.store[j].swap_spent_usd = store[i].swap_spent_usd

\* C8: the incoming legs of a group with one spent component carry its asset
\* and the sum of its outgoing legs; with more than one component they carry
\* "MULTI" and no amount; with no component they carry neither.  Components
\* are told apart by the pair (asset, contract_address).
C8_SpentAsset ==
    Done => \A tx \in QualifyingTxs : \A i \in InLegs(tx) :
        /\ (Priced(tx) /\ Cardinality(Keys(tx)) = 1) =>
               \E key \in Keys(tx) :
                   /\ store[i].swap_spent_asset = key[1]
                   /\ store[i].swap_spent_amount = KeyAmount(tx, key)
        /\ (Priced(tx) /\ Cardinality(Keys(tx)) > 1) =>
               /\ store[i].swap_spent_asset = "MULTI"
               /\ store[i].swap_spent_amount = None
        /\ ~Priced(tx) =>
               /\ store[i].swap_spent_asset = NULL
               /\ store[i].swap_spent_amount = None

\* two spent components of one asset symbol and different contract addresses
C8_Witness ==
    /\ Done
    /\ \E tx \in QualifyingTxs :
        /\ Priced(tx)
        /\ \E a \in Keys(tx), b \in Keys(tx) : a[1] = b[1] /\ a[2] # b[2]
        /\ \E i \in InLegs(tx) : store[i].swap_spent_asset = "MULTI"

\* C9 as stated: on every record where spentUsd and the reference price at
\* purchase are both present, the reference amount is present and equals
\* spentUsd / price, a price of zero included.
C9_AmountWheneverBothKnown ==
    \A i \in DOMAIN store :
        (store[i].swap_spent_usd # None
            /\ store[i].swap_btc_price_at_purchase # None) =>
            /\ store[i].swap_btc_amount # None
            /\ RatMul(store[i].swap_btc_amount,
                      store[i].swap_btc_price_at_purchase)
                   = store[i].swap_spent_usd

\* C9 (amended): on every record where spentUsd and the reference price at
\* purchase are both present, the reference amount is present and equals
\* spentUsd / price when the price is positive, and is absent when the price
\* is zero.
C9_PositivePrice ==
    \A i \in DOMAIN store :
        (store[i].swap_spent_usd # None
            /\ store[i].swap_btc_price_at_purchase # None) =>
            IF RatPos(store[i].swap_btc_price_at_purchase)
            THEN /\ store[i].swap_btc_amount # None
                 /\ store[i].swap_btc_amount
                        = RatDiv(store[i].swap_spent_usd,
                                 store[i].swap_btc_price_at_purchase)
            ELSE store[i].swap_btc_amount = None

\* a record valued at a positive reference price that is not 1
C9_Witness ==
    /\ Done
    /\ \E i \in DOMAIN store :
        /\ store[i].swap_spent_usd # None
        /\ store[i].swap_btc_price_at_purchase # None
        /\ RatPos(store[i].swap_btc_price_at_purchase)
        /\ store[i].swap_btc_price_at_purchase # Int2Rat(1)
        /\ store[i].swap_btc_amount # None

\* C10 as stated: a run of analyze() on a store returns a summary whatever
\* oracle call raises CoinGeckoError, the current-price lookup at the start of
\* the run included.
C10_AlwaysCompletes ==
    [][ (Idle /\ ~Idle') => result'.status = "ok" ]_vars

\* C11 as stated: when a write batch of a group raises, the run goes on with
\* the remaining groups: it returns a summary and the legs of every other
\* qualifying group are marked.
C11_WriteFailureIsolated ==
    (~Idle /\ Qualifies("t1") /\ "write_fails_t1" \in faults) =>
        /\ result.status = "ok"
        /\ \A tx \in QualifyingTxs \ {"t1"} :
               \A i \in OutLegs(tx) \cup InLegs(tx) : store[i].is_swap = 1

\* the reference amount stored for a group: the swap_btc_amount of its
\* incoming legs, absent counted as zero
GroupBtc(tx) ==
    IF \E i \in InLegs(tx) : store[i].swap_btc_amount # None
    THEN store[CHOOSE i \in InLegs(tx) : store[i].swap_btc_amount # None]
             .swap_btc_amount
    ELSE RatZero

RECURSIVE SumGroupBtc(_)
SumGroupBtc(txs) ==
    IF txs = {} THEN RatZero
    ELSE RatAdd(GroupBtc(CHOOSE x \in txs : TRUE),
                SumGroupBtc(txs \ {CHOOSE x \in txs : TRUE}))

\* C12: the summary of a run counts the qualifying groups, those whose
\* valuation failed included; its btc_amount is the sum of the groups'
\* reference amounts, absent as zero and each group once however many
\* incoming legs it has; its btc_value_usd is btc_amount * btc_price_current.
C12_Summary ==
    Done =>
        /\ result.summary.swaps_detected = Cardinality(QualifyingTxs)
        /\ result.summary.btc_amount = SumGroupBtc(QualifyingTxs)
        /\ result.summary.btc_value_usd
               = RatMul(result.summary.btc_amount,
                        result.summary.btc_price_current)

\* a valued group with two incoming legs
C12_Witness ==
    /\ Done
    /\ \E tx \in QualifyingTxs :
        /\ Cardinality(InLegs(tx)) = 2
        /\ \A i \in InLegs(tx) : store[i].swap_btc_amount # None
        /\ result.summary.btc_amount = GroupBtc(tx)
        /\ result.summary.btc_amount # RatZero

\* C13: over every step (a run of analyze() for any wallet under any oracle,
\* whether it returns or raises, and every upsert_events()), a record whose
\* is_swap is 1 is still stored with is_swap 1 afterwards.
C13_IsSwapMonotonic ==
    [][ \A i \in DOMAIN store :
            store[i].is_swap = 1 =>
                \E j \in DOMAIN store' :
                    /\ RowKey(store'[j]) = RowKey(store[i])
                    /\ store'[j].is_swap = 1 ]_vars

\* a run has raised over a store that holds a marked record
C13_Witness ==
    /\ result.status = "error"
    /\ \E i \in DOMAIN store : store[i].is_swap = 1

\* the store with is_swap and the enrichment columns as INSERT leaves them
Cleared(st) ==
    [i \in DOMAIN st |->
        [st[i] EXCEPT !.is_swap = 0,
                      !.swap_spent_asset = NULL,
                      !.swap_spent_amount = None,
                      !.swap_spent_usd = None,
                      !.swap_btc_price_at_purchase = None,
                      !.swap_btc_amount = None,
                      !.swap_btc_price_current = None,
                      !.swap_btc_value_usd = None]]

\* C14: after a run that returns, the enrichment columns of every incoming
\* leg of a qualifying group are what the same run writes on records that
\* carried no enrichment: nothing stored before the run shows in them.
C14_Overwrite ==
    [][ (Idle /\ ~Idle' /\ result'.status = "ok") =>
          \E fresh \in {analyze(Cleared(store), wallet', faults')} :
              \A i \in DOMAIN store :
                  (/\ QualifiesIn(store, wallet', store[i].tx_hash)
                   /\ i \in InOf(store, wallet', store[i].tx_hash)) =>
                      Enrichment(store'[i]) = Enrichment(fresh.store[i]) ]_vars

\* a run has valued a group, and a run whose valuation of the group fails
\* leaves its incoming leg without any valuation
C14_Witness ==
    /\ Done
    /\ \E tx \in QualifyingTxs : \E i \in InLegs(tx) :
        /\ store[i].swap_spent_usd # None
        /\ store[i].swap_btc_amount # None
        /\ \E f \in Oracles :
            /\ analyze(store, wallet, f).status = "ok"
            /\ Enrichment(analyze(store, wallet, f).store[i]) = NoEnrichment

\* C15: no two stored records share (chain, tx_hash, unique_id), a missing
\* uniqueId being stored as the empty string; an upsert leaves every record
\* that is already stored as it is, is_swap and enrichment included; and
\* upsert_events() returns the number of events it was handed.
C15_UniqueKey ==
    /\ [](/\ \A i, j \in DOMAIN store :
                RowKey(store[i]) = RowKey(store[j]) => i = j
          /\ \A i \in DOMAIN store : store[i].unique_id # NULL
          /\ attempted = fetched)
    /\ [][ (fetched = 0 /\ fetched' # 0) =>
              /\ Len(store') >= Len(store)
              /\ \A i \in DOMAIN store : store'[i] = store[i] ]_vars

\* two events of stored keys have been upserted over enriched records, one of
\* them stored under the empty uniqueId, and the call returned 2
C15_Witness ==
    /\ fetched = 2
    /\ attempted = 2
    /\ store # <<>>
    /\ \A i \in DOMAIN store : store[i].is_swap = 1
    /\ \E i \in DOMAIN store : store[i].unique_id = ""

\* C17 as stated: a run that returns leaves every outgoing leg of a
\* qualifying group, a self-transfer included, with is_swap = 1 and every
\* other field as it was.
C17_OutgoingNoValuation ==
    [][ (Idle /\ ~Idle' /\ result'.status = "ok") =>
          \A i \in DOMAIN store :
              (/\ QualifiesIn(store, wallet', store[i].tx_hash)
               /\ i \in OutOf(store, wallet', store[i].tx_hash)) =>
                  store'[i] = [store[i] EXCEPT !.is_swap = 1] ]_vars

\* C17 (amended): a run that returns leaves every outgoing leg of a
\* qualifying group that is not also an incoming leg with is_swap = 1 and
\* every other field as it was; a self-transfer is an incoming leg as well
\* and carries is_swap = 1 and the valuation of the group's incoming legs.
C17_OutgoingOnly ==
    [][ (Idle /\ ~Idle' /\ result'.status = "ok") =>
          \A i \in DOMAIN store :
              (/\ QualifiesIn(store, wallet', store[i].tx_hash)
               /\ i \in OutOf(store, wallet', store[i].tx_hash)) =>
                  IF i \in InOf(store, wallet', store[i].tx_hash)
                  THEN /\ store'[i].is_swap = 1
                       /\ \A j \in InOf(store, wallet', store[i].tx_hash) :
                              Enrichment(store'[j]) = Enrichment(store'[i])
                  ELSE store'[i] = [store[i] EXCEPT !.is_swap = 1] ]_vars

\* a group with a valued self-transfer and an outgoing leg that is marked
\* and carries no valuation
C17_Witness ==
    /\ Done
    /\ \E tx \in QualifyingTxs :
        /\ \E i \in OutLegs(tx) \ InLegs(tx) :
               store[i].is_swap = 1 /\ Enrichment(store[i]) = NoEnrichment
        /\ \E i \in OutLegs(tx) \cap InLegs(tx) :
               store[i].is_swap = 1 /\ store[i].swap_spent_usd # None

\* the outgoing legs of a group as analyze() hands them to
\* _build_spent_components
OutRows(tx) ==
    SelectSeq(GroupRows(_group_transactions(store), tx),
              LAMBDA r : _is_outgoing(wallet, r))

\* C18: _build_spent_components groups the outgoing legs by (asset,
\* contract_address) and skips the legs of null or non-positive value; when
\* it returns components there is exactly one for every remaining key, its
\* amount the sum of the values of the legs of the key and strictly
\* positive; a group whose outgoing legs are all skipped has no component
\* and no oracle call is made for it.
C18_SpendAggregation ==
    Done => \A tx \in QualifyingTxs :
        \E built \in {_build_spent_components(faults, tx, OutRows(tx),
                                              RefTime(tx))} :
            /\ built.ok =>
                /\ Len(built.components) = Cardinality(Keys(tx))
                /\ \A k \in DOMAIN built.components :
                    /\ RatPos(built.components[k].amount)
                    /\ \E key \in Keys(tx) :
                        /\ key[1] = built.components[k].asset
                        /\ KeyAmount(tx, key) = built.components[k].amount
                /\ \A key \in Keys(tx) : \E k \in DOMAIN built.components :
                        /\ key[1] = built.components[k].asset
                        /\ KeyAmount(tx, key) = built.components[k].amount
            /\ Keys(tx) = {} =>
                /\ built.ok /\ built.components = <<>> /\ built.calls = <<>>
                /\ \A k \in DOMAIN calls : calls[k][2] # tx
                /\ \A i \in InLegs(tx) : Enrichment(store[i]) = NoEnrichment

\* two legs of one key on different chains are summed into one component
C18_Witness ==
    /\ Done
    /\ \E tx \in QualifyingTxs : \E key \in Keys(tx) :
        /\ Cardinality(KeyLegs(tx, key)) = 2
        /\ Priced(tx)
        /\ \A i \in InLegs(tx) :
               store[i].swap_spent_amount = KeyAmount(tx, key)

\* a group whose only outgoing leg has value zero
C18_NoComponent ==
    /\ Done
    /\ \E tx \in QualifyingTxs :
        /\ Keys(tx) = {}
        /\ \A i \in OutLegs(tx) : store[i].value = RatZero

\* the historical price lookups a run made for a group
PriceCalls(tx) ==
    {k \in DOMAIN calls : /\ calls[k][1] = "get_price_at_timestamp"
                          /\ calls[k][2] = tx}

\* C19: every historical price lookup of a group is made at the
\* block_timestamp of the first record of the group in load order that has
\* a parseable timestamp, records between other addresses counted; a group
\* without such a record is looked up at the time of the analysis and is
\* valued like any other.
C19_ReferenceTime ==
    Done => \A tx \in QualifyingTxs :
        /\ \A k \in PriceCalls(tx) : calls[k][4] = TStr(RefTime(tx))
        /\ Parseable(tx) = {} =>
            /\ \A k \in PriceCalls(tx) : calls[k][4] = "now"
            /\ (Priced(tx) /\ BtcOk(tx)) =>
                   \A i \in InLegs(tx) :
                       Enrichment(store[i]) = FullValuation(tx)

\* the wallet's legs are of instant 2 and a record between two other
\* addresses is of instant 1: the group is valued at instant 1
C19_Witness ==
    /\ Done
    /\ \E tx \in QualifyingTxs :
        /\ \E i \in Legs(tx) \ (OutLegs(tx) \cup InLegs(tx)) :
               _parse_timestamp(store[i].block_timestamp) = <<1>>
        /\ \A i \in OutLegs(tx) \cup InLegs(tx) :
               _parse_timestamp(store[i].block_timestamp) = <<2>>
        /\ PriceCalls(tx) # {}
        /\ \A k \in PriceCalls(tx) : calls[k][4] = "1"
        /\ \A i \in InLegs(tx) : store[i].swap_btc_amount # None

\* a group without a parseable timestamp is valued at the time of analysis
C19_Fallback ==
    /\ Done
    /\ \E tx \in QualifyingTxs :
        /\ Parseable(tx) = {}
        /\ \E k \in PriceCalls(tx) : calls[k][4] = "now"
        /\ \A i \in InLegs(tx) : store[i].swap_btc_amount # None

\* C20: a run that ends with an error leaves every record as it was before
\* the run, also when groups had been written before the error; a run that
\* returns a summary leaves the legs of all qualifying groups marked.
C20_AllOrNothing ==
    [][ (Idle /\ ~Idle') =>
          IF result'.status = "error"
          THEN store' = store
          ELSE \A i \in DOMAIN store :
                   (/\ QualifiesIn(store, wallet', store[i].tx_hash)
                    /\ i \in OutOf(store, wallet', store[i].tx_hash)
                           \cup InOf(store, wallet', store[i].tx_hash)) =>
                       store'[i].is_swap = 1 ]_vars

\* a run has raised in its second group, after the valuation and the writes
\* of its first group, and the legs of the first group are unmarked
C20_Witness ==
    /\ result.status = "error"
    /\ Cardinality(QualifyingTxs) = 2
    /\ \E tx \in QualifyingTxs :
        /\ TxOrder(_group_transactions(store), {})[1] = tx
        /\ \E k \in PriceCalls(tx) : calls[k][3] = "bitcoin"
        /\ \A i \in OutLegs(tx) \cup InLegs(tx) : store[i].is_swap = 0

\* C16: within one client instance, once get_price_at_timestamp(id, t),
\* get_current_price(id) or get_coin_id_by_contract(platform, contract) has
\* returned a value, a later call with the same key returns that value and
\* issues no upstream request.
C16_Cached ==
    [][\A op \in {"get_price_at_timestamp", "get_current_price",
                  "get_coin_id_by_contract"} :
           (last'.op = op /\ last'.key \in DOMAIN answered[op])
               => /\ requests' = requests
                  /\ last'.value = answered[op][last'.key]]_vars

\* C16, the two lookups that keep a cache: the same statement for
\* get_price_at_timestamp and get_coin_id_by_contract.
C16_CachedLookups ==
    [][\A op \in {"get_price_at_timestamp", "get_coin_id_by_contract"} :
           (last'.op = op /\ last'.key \in DOMAIN answered[op])
               => /\ requests' = requests
                  /\ last'.value = answered[op][last'.key]]_vars

\* the current-price lookups among the calls of the run
CurrentCalls == {k \in DOMAIN calls : calls[k][1] = "get_current_price"}

\* C21: a run of analyze() on a store without records makes no call on the
\* oracle and returns the summary of zeros, btc_price_current included; a
\* run on a store with at least one record makes exactly one current-price
\* lookup, as its first call, whether or not a group qualifies; when that
\* lookup fails the run makes no other call and writes nothing.
C21_CurrentPriceOnce ==
    /\ [](~Idle =>
            /\ store = <<>> =>
                   /\ calls = <<>>
                   /\ result = [status |-> "ok", summary |-> NoSummary]
            /\ store # <<>> =>
                   /\ CurrentCalls = {1}
                   /\ calls[1] = Call("get_current_price", "", "bitcoin", "")
                   /\ CurrentPrice = None => Len(calls) = 1 /\ ~Done)
    /\ [][(Idle /\ ~Idle' /\ get_current_price(faults', "bitcoin") = None)
              => store' = store]_vars

\* a run on a store whose records form no qualifying group: one lookup, the
\* current price, and a summary of zeros but for that price
C21_Witness ==
    /\ Done
    /\ store # <<>>
    /\ QualifyingTxs = {}
    /\ calls = <<Call("get_current_price", "", "bitcoin", "")>>
    /\ result.summary = Summary(0, RatZero, RatZero, CurrentPrice)
    /\ CurrentPrice # RatZero

\* a run on the empty store
C21_EmptyStore ==
    /\ Done
    /\ store = <<>>
    /\ calls = <<>>

\* |x - y|
RatDist(x, y) ==
    IF RatLess(x, y) THEN RatAdd(y, RatMul(Int2Rat(0 - 1), x))
    ELSE RatAdd(x, RatMul(Int2Rat(0 - 1), y))

\* x and y differ by no more than three roundings of a value of size z
Close(x, y, z) ==
    ~RatLess(RatMul(Rat(4, Pow2(MantissaBits)), z), RatDist(x, y))

\* the records the enrich-incoming step of the run has written
Enriched == {i \in DOMAIN store : \E tx \in QualifyingTxs : i \in InLegs(tx)}

\* the three reference columns of a record are present together or not at all
RefPresence(r) ==
    /\ r.swap_btc_price_current # None <=> r.swap_btc_amount # None
    /\ r.swap_btc_value_usd # None <=> r.swap_btc_amount # None

\* C22 as stated: on every record written by the enrich-incoming step the
\* stored current price and current value are present exactly when the stored
\* reference amount is, the stored value is the product of the stored amount
\* and the stored current price (taken exactly, or rounded as a float
\* product is), and the stored current price is the current price of the run.
C22_ValueIsProduct ==
    Done =>
        \A i \in Enriched :
            /\ RefPresence(store[i])
            /\ store[i].swap_btc_amount # None =>
                   /\ float(store[i].swap_btc_price_current)
                          = float(result.summary.btc_price_current)
                   /\ \/ float(store[i].swap_btc_value_usd)
                             = RatMul(float(store[i].swap_btc_amount),
                                      float(store[i].swap_btc_price_current))
                      \/ float(store[i].swap_btc_value_usd)
                             = float(RatMul(float(store[i].swap_btc_amount),
                                            float(store[i].swap_btc_price_current)))

\* C22, amended: on every record written by the enrich-incoming step the
\* stored current price and current value are present exactly when the stored
\* reference amount is; when present, the stored current price is the one
\* current price of the run, the same on every record the run enriches, and
\* the stored value is the float of the product of the run's current price
\* and the group's reference amount before that amount is rounded, so that
\* it is the product of the stored amount and the stored price up to the
\* rounding of the floats.
C22_CurrentValue ==
    Done =>
        \A i \in Enriched :
            /\ RefPresence(store[i])
            /\ store[i].swap_btc_amount # None =>
                   /\ store[i].swap_btc_price_current = CurrentPrice
                   /\ store[i].swap_btc_price_current
                          = result.summary.btc_price_current
                   /\ float(store[i].swap_btc_price_current)
                          = store[i].swap_btc_price_current
                   /\ store[i].swap_btc_value_usd
                          = RatMul(store[i].swap_btc_amount, CurrentPrice)
                   /\ Close(float(store[i].swap_btc_value_usd),
                            RatMul(float(store[i].swap_btc_amount),
                                   float(store[i].swap_btc_price_current)),
                            store[i].swap_btc_value_usd)

\* a run that enriches one record with a reference amount whose stored value
\* is not the product of the stored amount and price, and another without
\* a reference amount
C22_Witness ==
    /\ Done
    /\ \E i \in Enriched :
           /\ store[i].swap_btc_amount # None
           /\ float(store[i].swap_btc_value_usd)
                  # RatMul(float(store[i].swap_btc_amount),
                           float(store[i].swap_btc_price_current))
    /\ \E i \in Enriched :
           /\ store[i].swap_spent_usd # None
           /\ store[i].swap_btc_amount = None
           /\ store[i].swap_btc_price_current = None
           /\ store[i].swap_btc_value_usd = None
====
